---- MODULE Spec2Model ----
(***************************************************************************)
(* Model of the typing-session engine of wpm (src/wpm/game.py): the state  *)
(* of a Game object and the transition made by Game.handle_key for every   *)
(* kind of key Screen.get_key can deliver.                                 *)
(*                                                                         *)
(* A Python string is a sequence of characters; a character is a TLA+      *)
(* string standing for one code point ("ESC" is chr(27), "BS" is chr(8),   *)
(* "DEL" is chr(127)).  A key is a Python string: one character for an     *)
(* ordinary key, several for a named key such as KEY_LEFT.                 *)
(* Timestamps are abstracted to their presence: None or Set.               *)
(*                                                                         *)
(* The text layout functions word_wrap and screen_coords are pure; they    *)
(* are applied to bounded inputs under the specification LayoutSpec.       *)
(***************************************************************************)
EXTENDS Integers, Sequences, FiniteSets, TLC

\* ---------------------------------------------------------------- bounds
\* Wrong keystrokes registered in one attempt (total_incorrect is unbounded
\* in the code).
MaxTotalIncorrect == 2
\* Longest text handed to word_wrap.
MaxTextLen == 5
\* Widest line asked of word_wrap.
MaxWidth == 3

\* ------------------------------------------------------------ characters
None == "None"
Set == "Set"

KEY_LEFT == <<"K", "E", "Y", "_", "L", "E", "F", "T">>
KEY_RIGHT == <<"K", "E", "Y", "_", "R", "I", "G", "H", "T">>
KEY_RESIZE == <<"K", "E", "Y", "_", "R", "E", "S", "I", "Z", "E">>
KEY_BACKSPACE == <<"K", "E", "Y", "_", "B", "A", "C", "K", "S", "P", "A", "C", "E">>

\* The keys fed to handle_key: ordinary characters, enter, tab, escape,
\* backspace and named keys of Screen.get_key.
Keys ==
    { <<"a">>, <<" ">>, <<"\n">>, <<"\t">>, <<"ESC">>, <<"BS">>,
      KEY_LEFT, KEY_RESIZE }

\* The quote collection: texts are non-empty and may hold spaces and
\* newlines, also at index 0.
Quotes ==
    << <<"a", "a">>,
       <<"a", " ", "a">>,
       <<" ", "a">>,
       <<"a">>,
       <<"\n", "a">> >>

\* Values of self.tab_spaces once main() has configured the game: <<>> is
\* None (no expansion), <<n>> is the integer n.
TabSpacesChoices == {<<>>, <<2>>}

\* ---------------------------------------------------------------- state
VARIABLES
    quote,            \* index of self.quote in Quotes
    position,         \* self.position
    incorrect,        \* self.incorrect
    total_incorrect,  \* self.total_incorrect
    start,            \* self.start
    stop,             \* self.stop
    edit,             \* self._edit
    tab_spaces,       \* self.tab_spaces
    added,            \* number of stats.add calls the last handle_key made
    raised,           \* exception that left handle_key, "none" if none
    key,              \* the key of the last handle_key call, <<>> before any
    pre,              \* the session as it was when that call began
    layout            \* arguments and results of word_wrap and screen_coords

vars ==
    <<quote, position, incorrect, total_incorrect, start, stop, edit,
      tab_spaces, added, raised, key, pre, layout>>

\* The Game object as one value, for the operators below.
Game ==
    [quote |-> quote, position |-> position, incorrect |-> incorrect,
     total_incorrect |-> total_incorrect, start |-> start, stop |-> stop,
     edit |-> edit, added |-> 0, raised |-> raised]

text(g) == Quotes[g.quote]

\* ------------------------------------------------------ Python strings
\* s[:-1]
DropLast(s) == IF Len(s) = 0 THEN s ELSE SubSeq(s, 1, Len(s) - 1)

\* s[i] is defined for -len(s) <= i < len(s); a negative i counts from the end.
InRange(s, i) == -Len(s) <= i /\ i < Len(s)

Index(s, i) == IF i >= 0 THEN s[i + 1] ELSE s[Len(s) + i + 1]

\* " " * n
Spaces(n) == [i \in 1..n |-> " "]

\* ------------------------------------------------------------- Screen
is_escape(k) == IF Len(k) = 1 THEN k[1] = "ESC" ELSE FALSE

is_backspace(k) ==
    IF Len(k) > 1 THEN k = KEY_BACKSPACE
    ELSE IF k[1] \in {"BS", "DEL"} THEN TRUE
    ELSE FALSE

\* ------------------------------------------------------- quote source
\* quotes.next() and quotes.previous(): inverse steps along a ring.
next(q) == (q % Len(Quotes)) + 1

previous(q) == ((q + Len(Quotes) - 2) % Len(Quotes)) + 1

\* ---------------------------------------------------------------- Game
\* An accuracy computed from the progress made instead of the quote length.
accuracy_of_progress(g) ==
    IF g.start = None THEN <<0, 1>>
    ELSE <<g.position, g.position + g.total_incorrect>>

\* Game.accuracy as the fraction <<numerator, denominator>>.
accuracy(g) ==
    IF g.start = None THEN <<0, 1>>
    ELSE <<Len(text(g)), Len(text(g)) + g.total_incorrect>>

\* reset that forgets to clear the cumulative error count.
reset_keeps_total(g, direction) ==
    [g EXCEPT !.start = None, !.stop = None,
              !.position = 0, !.incorrect = 0,
              !.edit = <<>>,
              !.quote = IF direction # 0
                        THEN IF direction > 0 THEN next(@) ELSE previous(@)
                        ELSE @]

\* Game.reset(direction)
reset(g, direction) ==
    [g EXCEPT !.start = None, !.stop = None,
              !.position = 0, !.incorrect = 0, !.total_incorrect = 0,
              !.edit = <<>>,
              !.quote = IF direction # 0
                        THEN IF direction > 0 THEN next(@) ELSE previous(@)
                        ELSE @]

\* mark_finished with the store written before stop is set.
mark_finished_store_first(g, ok) ==
    IF ok THEN [g EXCEPT !.stop = Set, !.added = @ + 1]
    ELSE [g EXCEPT !.added = @ + 1, !.raised = "StoreError"]

\* mark_finished that sets stop and forgets the store.
mark_finished_unsaved(g, ok) == [g EXCEPT !.stop = Set]

\* Game.mark_finished: stop is set first, then the result goes to the
\* statistics store; ok = FALSE is a store whose add raises.
mark_finished(g, ok) ==
    [g EXCEPT !.stop = Set,
              !.added = @ + 1,
              !.raised = IF ok THEN @ ELSE "StoreError"]

\* A browse-mode test that is always met.
browse_mode_always(g) == TRUE

\* A browse-mode test that takes only "not started" for browsing.
browse_mode_not_started(g) == g.start = None

\* The browse-mode test of handle_key.
browse_mode(g) == g.start = None \/ (g.start # None /\ g.stop # None)

\* A backspace that also takes the error back out of the cumulative count.
backspace_forgives(g) ==
    IF g.incorrect # 0
    THEN [g EXCEPT !.incorrect = @ - 1, !.total_incorrect = @ - 1,
                   !.edit = DropLast(@)]
    ELSE IF g.edit # <<>>
         THEN [g EXCEPT !.position = @ - 1, !.edit = DropLast(@)]
         ELSE g

\* A backspace that deletes the whole word typed so far.
backspace_word(g) ==
    IF g.incorrect # 0
    THEN [g EXCEPT !.incorrect = @ - 1, !.edit = DropLast(@)]
    ELSE IF g.edit # <<>>
         THEN [g EXCEPT !.position = @ - Len(g.edit), !.edit = <<>>]
         ELSE g

\* The backspace branch of handle_key.
backspace(g) ==
    IF g.incorrect # 0
    THEN [g EXCEPT !.incorrect = @ - 1, !.edit = DropLast(@)]
    ELSE IF g.edit # <<>>
         THEN [g EXCEPT !.position = @ - 1, !.edit = DropLast(@)]
         ELSE g

\* "Try again?" left out: the finished race is typed on.
try_again_skipped(g) == g

\* "Try again?": a key typed after the race is over starts the quote anew.
try_again(g) == IF g.stop # None THEN reset(g, 0) ELSE g

\* "Start recording upon first ordinary key press".
start_recording(g) == IF g.start = None THEN [g EXCEPT !.start = Set] ELSE g

\* Key normalisation.  curses.KEY_ENTER is an integer and never equals a key
\* string, so only the tab branch can apply.
normalize(k, spaces) ==
    IF k = <<"\t">> /\ spaces # <<>> THEN Spaces(spaces[1]) ELSE k

\* "Did the user strike the correct key?": a one-character string compared
\* with the whole key.
correct_key(g, k) == g.incorrect = 0 /\ <<Index(text(g), g.position)>> = k

\* The correct-key branch with the completion test off by one.
strike_correct_late(g, k, ok) ==
    LET h == [g EXCEPT !.position = @ + 1,
                       !.edit = IF k = <<" ">> \/ k = <<"\n">>
                                THEN <<>> ELSE @ \o k]
    IN  IF h.position > Len(text(h)) THEN mark_finished(h, ok) ELSE h

\* The branch taken on the correct key.
strike_correct(g, k, ok) ==
    LET h == [g EXCEPT !.position = @ + 1,
                       !.edit = IF k = <<" ">> \/ k = <<"\n">>
                                THEN <<>> ELSE @ \o k]
    IN  IF h.position = Len(text(h)) THEN mark_finished(h, ok) ELSE h

\* The wrong-key branch without the end-of-quote test.
strike_incorrect_unguarded(g, k) ==
    [g EXCEPT !.incorrect = @ + 1,
              !.total_incorrect = @ + 1,
              !.edit = @ \o (IF k = <<"\n">> THEN <<" ">> ELSE k)]

\* The branch taken on any other key.
strike_incorrect(g, k) ==
    IF g.incorrect + g.position < Len(text(g))
    THEN [g EXCEPT !.incorrect = @ + 1,
                   !.total_incorrect = @ + 1,
                   !.edit = @ \o (IF k = <<"\n">> THEN <<" ">> ELSE k)]
    ELSE g

\* The part of handle_key after the backspace branch.
strike(g0, k0, spaces, ok) ==
    LET g == start_recording(try_again(g0))
        k == normalize(k0, spaces)
    IN  IF g.incorrect = 0 /\ ~InRange(text(g), g.position)
        THEN [g EXCEPT !.raised = "IndexError"]
        ELSE IF correct_key(g, k) THEN strike_correct(g, k, ok)
        ELSE strike_incorrect(g, k)

\* Game.handle_key as a function of the object, the key and the store's
\* answer.
handle(g, k, spaces, ok) ==
    IF k = KEY_RESIZE THEN g
    ELSE IF browse_mode(g) /\ k \in {<<" ">>, KEY_LEFT, KEY_RIGHT}
    THEN reset(g, IF k = KEY_LEFT THEN -1 ELSE 1)
    ELSE IF browse_mode(g) /\ is_escape(k)
    THEN [g EXCEPT !.raised = "KeyboardInterrupt"]
    ELSE IF is_escape(k) THEN reset(g, 0)
    ELSE IF is_backspace(k) THEN backspace(g)
    ELSE strike(g, k, spaces, ok)

\* -------------------------------------------------------- text layout
\* The texts handed to word_wrap: every string of a's and spaces of length
\* 0..MaxTextLen.
Texts == UNION {[1..n -> {"a", " "}] : n \in 0..MaxTextLen}

\* No layout call has been made.
NoLayout ==
    [pc |-> "idle", text |-> <<>>, width |-> 0, lengths |-> <<>>,
     raised |-> "none", offset |-> 0, coords |-> <<0, 0>>]

\* s.rindex(" ") finds a space; otherwise it raises ValueError.
rindex_found(s) == \E i \in 1..Len(s) : s[i] = " "

\* s.rindex(" "): the highest index, from 0, of a space in s.
rindex(s) ==
    CHOOSE i \in 0..(Len(s) - 1) :
        /\ s[i + 1] = " "
        /\ \A j \in (i + 1)..(Len(s) - 1) : s[j + 1] # " "

\* s[:n] and s[n:]
Prefix(s, n) == SubSeq(s, 1, IF n < Len(s) THEN n ELSE Len(s))
Suffix(s, n) == SubSeq(s, n + 1, Len(s))

\* The loop of word_wrap with the lines found so far; the result is the
\* returned list or the exception raised.
RECURSIVE word_wrap_loop(_, _, _)
word_wrap_loop(t, width, lengths) ==
    IF Len(t) > width
    THEN IF ~rindex_found(Prefix(t, width + 1))
         THEN [raised |-> "ValueError", lengths |-> <<>>]
         ELSE LET end == rindex(Prefix(t, width + 1))
              IN  IF end = -1
                  THEN [raised |-> "none", lengths |-> <<Len(t)>>]
                  ELSE word_wrap_loop(Suffix(t, end + 1), width,
                                      Append(lengths, end))
    ELSE [raised |-> "none",
          lengths |-> IF t # <<>> THEN Append(lengths, Len(t)) ELSE lengths]

\* word_wrap(text, width)
word_wrap(t, width) == word_wrap_loop(t, width, <<>>)

\* The loop of screen_coords at line i (from 1); the result is <<x, y>>.
RECURSIVE screen_coords_loop(_, _, _)
screen_coords_loop(lengths, p, i) ==
    IF i > Len(lengths)
    THEN <<p, IF Len(lengths) = 0 THEN 0 ELSE Len(lengths) - 1>>
    ELSE IF p <= lengths[i] THEN <<p, i - 1>>
    ELSE screen_coords_loop(lengths, p - (lengths[i] + 1), i + 1)

\* screen_coords(lengths, position)
screen_coords(lengths, p) == screen_coords_loop(lengths, p, 1)

\* ------------------------------------------------------------- actions
Init ==
    /\ quote \in 1..Len(Quotes)
    /\ position = 0
    /\ incorrect = 0
    /\ total_incorrect = 0
    /\ start = None
    /\ stop = None
    /\ edit = <<>>
    /\ tab_spaces \in TabSpacesChoices
    /\ added = 0
    /\ raised = "none"
    /\ key = <<>>
    /\ pre = Game
    /\ layout = NoLayout

\* One pass of the loop of Game.run that got a key: handle_key(k).  An
\* exception leaves the loop, so nothing is handled after one.
handle_key(k) ==
    /\ raised = "none"
    /\ \E ok \in BOOLEAN :
        LET h == handle(Game, k, tab_spaces, ok)
        IN  /\ h.total_incorrect <= MaxTotalIncorrect
            /\ quote' = h.quote
            /\ position' = h.position
            /\ incorrect' = h.incorrect
            /\ total_incorrect' = h.total_incorrect
            /\ start' = h.start
            /\ stop' = h.stop
            /\ edit' = h.edit
            /\ added' = h.added
            /\ raised' = h.raised
    /\ key' = k
    /\ pre' = Game
    /\ UNCHANGED <<tab_spaces, layout>>

Next == \E k \in Keys : handle_key(k)

Spec == Init /\ [][Next]_vars

\* The layout functions on their own: a text and a width are chosen, the text
\* is wrapped, and offsets of the text are translated with the result.
LayoutInit ==
    /\ quote = 1
    /\ position = 0
    /\ incorrect = 0
    /\ total_incorrect = 0
    /\ start = None
    /\ stop = None
    /\ edit = <<>>
    /\ tab_spaces = <<>>
    /\ added = 0
    /\ raised = "none"
    /\ key = <<>>
    /\ pre = Game
    /\ \E t \in Texts, w \in 1..MaxWidth :
        layout = [NoLayout EXCEPT !.pc = "input", !.text = t, !.width = w]

GameVars ==
    <<quote, position, incorrect, total_incorrect, start, stop, edit,
      tab_spaces, added, raised, key, pre>>

\* lengths = word_wrap(text, width)
WordWrap ==
    /\ layout.pc = "input"
    /\ LET r == word_wrap(layout.text, layout.width)
       IN  layout' = [layout EXCEPT !.pc = "wrapped",
                                    !.lengths = r.lengths,
                                    !.raised = r.raised]
    /\ UNCHANGED GameVars

\* coords = screen_coords(lengths, o), for an offset o of the text.
ScreenCoords(o) ==
    /\ layout.pc \in {"wrapped", "located"}
    /\ layout.raised = "none"
    /\ layout' = [layout EXCEPT !.pc = "located",
                                 !.offset = o,
                                 !.coords = screen_coords(layout.lengths, o)]
    /\ UNCHANGED GameVars

LayoutNext ==
    \/ WordWrap
    \/ \E o \in 0..Len(layout.text) : ScreenCoords(o)

LayoutSpec == LayoutInit /\ [][LayoutNext]_vars

\* ------------------------------------------------------------ properties
\* The states of the session (spec 4.2), of the session g.
NotStarted(g) == g.start = None
Typing(g) == g.start # None /\ g.stop = None
Finished(g) == g.stop # None

\* A handle_key call has been made; key and pre describe it.
Handled == key # <<>>

IsBackspace(k) == Len(k) > 0 /\ is_backspace(k)
IsCancel(k) == Len(k) > 0 /\ is_escape(k)
\* An ordinary character key: one character, neither cancel nor backspace.
IsCharacter(k) == Len(k) = 1 /\ ~is_escape(k) /\ ~is_backspace(k)

\* The call described by key and pre reset the session: a cancel while
\* Typing, a navigation key while browsing, or a key typed after the race
\* was over.
SessionReset ==
    \/ IsCancel(key) /\ Typing(pre)
    \/ browse_mode(pre) /\ key \in {<<" ">>, KEY_LEFT, KEY_RIGHT}
    \/ /\ Finished(pre) /\ Handled
       /\ ~IsBackspace(key) /\ ~IsCancel(key) /\ key # KEY_RESIZE

\* The session is fresh.
Fresh ==
    /\ position = 0 /\ incorrect = 0 /\ total_incorrect = 0
    /\ edit = <<>> /\ start = None /\ stop = None

\* The call described by key and pre left the session as it was.
SessionUnchanged ==
    /\ quote = pre.quote /\ position = pre.position
    /\ incorrect = pre.incorrect /\ total_incorrect = pre.total_incorrect
    /\ edit = pre.edit /\ start = pre.start /\ stop = pre.stop

\* C1: whenever stop is set, incorrect is 0 and position is len(quote.text).
C1_StopImpliesComplete ==
    stop # None => incorrect = 0 /\ position = Len(Quotes[quote])

\* C2: position stays within 0..len(quote.text) for every key sequence.
C2_PositionInRange == 0 <= position /\ position <= Len(Quotes[quote])

\* C3: position + incorrect never exceeds len(quote.text).
C3_ProgressBounded == position + incorrect <= Len(Quotes[quote])

\* A wrong key arrived when the quote was already covered and was dropped.
C3_Witness ==
    /\ Handled /\ IsCharacter(key) /\ Typing(pre)
    /\ pre.incorrect > 0
    /\ pre.position + pre.incorrect = Len(Quotes[quote])
    /\ SessionUnchanged

\* The session g is on the run that starts fresh and gets the characters of
\* the text in order: k characters typed, none wrong, none left to correct.
OnCleanRun(g) ==
    /\ g.stop = None /\ g.incorrect = 0 /\ g.total_incorrect = 0
    /\ g.position \in 0..(Len(text(g)) - 1)
    /\ (g.position = 0 <=> g.start = None)
    /\ (g.start = None => g.edit = <<>>)

\* The last call got the next character of the text on that run.
NextCharTyped ==
    /\ Handled /\ OnCleanRun(pre)
    /\ key = <<text(pre)[pre.position + 1]>>

\* What C4 says of such a call.
CleanStep ==
    /\ quote = pre.quote
    /\ position = pre.position + 1
    /\ total_incorrect = 0
    /\ (stop # None <=> position = Len(Quotes[quote]))
    /\ accuracy(Game)[1] = accuracy(Game)[2]

\* C4 as stated: for any non-empty text, typing its characters in order
\* from a fresh session moves position up by one per key, finishes exactly
\* at the last character and keeps total_incorrect 0 and accuracy 1.
C4_Original == NextCharTyped => CleanStep

\* C4 as amended: the same for every text that does not begin with a space.
C4_TypedInOrder ==
    NextCharTyped /\ text(pre)[1] # " " => CleanStep

\* A three-character text with a space in it has been typed through.
C4_Witness ==
    /\ NextCharTyped /\ Len(Quotes[quote]) = 3 /\ Quotes[quote][2] = " "
    /\ pre.position = 2 /\ stop # None /\ position = 3

\* C5: a cancel key handled while Typing leaves a fresh session on the same
\* quote.
C5_CancelWhileTyping ==
    IsCancel(key) /\ Typing(pre) => Fresh /\ quote = pre.quote

\* A cancel arrived after progress and errors had been made.
C5_Witness ==
    /\ IsCancel(key) /\ Typing(pre)
    /\ pre.position > 0 /\ pre.incorrect > 0 /\ pre.total_incorrect > 1
    /\ pre.edit # <<>>

\* C6 as stated: a cancel key handled while Finished resets the session on
\* the same quote, and the quit signal is raised only by a cancel that
\* arrives while NotStarted.
C6_Original ==
    /\ IsCancel(key) /\ Finished(pre)
        => Fresh /\ quote = pre.quote /\ raised = "none"
    /\ raised = "KeyboardInterrupt" => IsCancel(key) /\ NotStarted(pre)

\* C6 as amended: a cancel key handled while Finished raises the quit signal
\* and leaves the session as it was; the quit signal is raised exactly by a
\* cancel that arrives while NotStarted or Finished.
C6_CancelWhileFinished ==
    /\ IsCancel(key) /\ Finished(pre)
        => raised = "KeyboardInterrupt" /\ SessionUnchanged
    /\ raised = "KeyboardInterrupt"
        <=> IsCancel(key) /\ (NotStarted(pre) \/ Finished(pre))

\* A cancel arrived after a race was over.
C6_Witness ==
    IsCancel(key) /\ Finished(pre) /\ raised = "KeyboardInterrupt"

\* C7 as stated: any character key handled while Finished starts a new
\* attempt at the same quote with that key as its first keystroke.
C7_Original ==
    IsCharacter(key) /\ Finished(pre)
        => /\ quote = pre.quote
           /\ start # None /\ stop = None
           /\ position + incorrect = 1

\* C7 as amended: any character key but the space, handled while Finished,
\* starts a new attempt at the same quote with that key as its first
\* keystroke; stop is set again only when that keystroke completes a
\* one-character quote.
C7_RestartAfterFinished ==
    IsCharacter(key) /\ key # <<" ">> /\ Finished(pre)
        => /\ quote = pre.quote
           /\ start # None
           /\ position + incorrect = 1
           /\ (stop # None <=> position = 1 /\ Len(Quotes[quote]) = 1)

\* A key typed after a race of more than one character began the quote anew.
C7_Witness ==
    /\ IsCharacter(key) /\ key # <<" ">> /\ Finished(pre)
    /\ pre.position = Len(Quotes[quote]) /\ pre.position > 1
    /\ position = 1 /\ stop = None /\ start # None

\* The last call registered one wrong key in Typing with no error pending.
WrongKeyStruck ==
    /\ Handled /\ raised = "none" /\ Typing(pre)
    /\ pre.incorrect = 0 /\ pre.position < Len(text(pre))
    /\ ~IsBackspace(key) /\ ~IsCancel(key) /\ key # KEY_RESIZE
    /\ incorrect = 1

\* C8: a wrong key followed by a backspace restores position, incorrect and
\* the edit buffer and leaves total_incorrect one higher, whatever the wrong
\* key was.
C8_WrongThenBackspace ==
    [][WrongKeyStruck /\ IsBackspace(key')
        => /\ position' = pre.position
           /\ incorrect' = pre.incorrect
           /\ edit' = pre.edit
           /\ total_incorrect' = pre.total_incorrect + 1]_vars

\* C9: total_incorrect is left alone by a backspace and never goes down
\* within a session; only a reset of the session takes it back to 0 (a key
\* that restarts a finished race counts from 0 again, itself included).
C9_TotalIncorrectKept ==
    /\ IsBackspace(key) => total_incorrect = pre.total_incorrect
    /\ Handled /\ ~SessionReset => total_incorrect >= pre.total_incorrect
    /\ SessionReset => total_incorrect = incorrect /\ incorrect <= 1

\* A backspace took back a wrong key whose error stays counted.
C9_Witness ==
    /\ IsBackspace(key) /\ pre.incorrect > 0
    /\ incorrect = pre.incorrect - 1 /\ total_incorrect > 0

\* C10: within a session position goes down only by a backspace, and then
\* by one.
C10_PositionMonotone ==
    Handled /\ ~SessionReset /\ position < pre.position
        => IsBackspace(key) /\ position = pre.position - 1

\* A backspace took back a correctly typed character.
C10_Witness ==
    /\ IsBackspace(key) /\ Typing(pre) /\ pre.incorrect = 0
    /\ pre.position > 0 /\ position = pre.position - 1

\* C11: once started, accuracy is in (0, 1] and is 1 exactly when
\* total_incorrect is 0; before the start it is 0.
C11_AccuracyBounds ==
    LET a == accuracy(Game)
    IN  /\ start # None
            => /\ a[1] > 0 /\ a[2] > 0
               /\ a[1] <= a[2]
               /\ (a[1] = a[2] <=> total_incorrect = 0)
        /\ start = None => a[1] = 0

\* A race was finished with errors made on the way.
C11_Witness ==
    /\ stop # None /\ start # None /\ total_incorrect > 0
    /\ accuracy(Game)[1] < accuracy(Game)[2]

\* word_wrap has been applied to the text and the width of layout.
Wrapped == layout.pc # "input" /\ layout.pc # "idle"

\* C12: word_wrap never fails; when the first width+1 characters hold no
\* space it returns the text as one line.
C12_WrapNeverFails ==
    Wrapped
        => /\ layout.raised = "none"
           /\ (/\ Len(layout.text) > layout.width
               /\ ~rindex_found(Prefix(layout.text, layout.width + 1)))
                => layout.lengths = <<Len(layout.text)>>

RECURSIVE Sum(_)
Sum(s) == IF s = <<>> THEN 0 ELSE Head(s) + Sum(Tail(s))

\* C13: the lengths returned by word_wrap and one separator between
\* consecutive lines account for the whole text; the empty text gives no
\* line.
C13_LengthsCoverText ==
    Wrapped
        => /\ layout.raised = "none"
           /\ IF layout.text = <<>> THEN layout.lengths = <<>>
              ELSE Sum(layout.lengths) + (Len(layout.lengths) - 1)
                       = Len(layout.text)

\* C14: for a non-empty text every offset 0..len(text) is translated to a
\* row of the layout and a column within that row.
C14_CoordsInBounds ==
    Wrapped /\ layout.text # <<>>
        => /\ layout.raised = "none"
           /\ layout.pc = "located"
                => /\ layout.coords[2] \in 0..(Len(layout.lengths) - 1)
                   /\ layout.coords[1]
                          \in 0..layout.lengths[layout.coords[2] + 1]

\* The offset in the text at which line i (from 1) of the layout begins.
LineStart(lengths, i) == Sum([j \in 1..(i - 1) |-> lengths[j] + 1])

\* C15: the offset len(text) is translated to the last line, to the column
\* just past the last character of the text.
C15_EndOfText ==
    Wrapped /\ layout.text # <<>>
        => /\ layout.raised = "none"
           /\ layout.pc = "located" /\ layout.offset = Len(layout.text)
                => /\ layout.coords[2] = Len(layout.lengths) - 1
                   /\ layout.coords[1]
                          = Len(layout.text)
                              - LineStart(layout.lengths, Len(layout.lengths))

\* C16: when the store write of mark_finished fails, the session is already
\* wholly Finished.
C16_FinishedBeforeStore ==
    raised = "StoreError"
        => /\ start # None /\ stop # None
           /\ position = Len(Quotes[quote])
           /\ incorrect = 0

\* The store failed on a race that had been typed to its end.
C16_Witness ==
    /\ raised = "StoreError" /\ added = 1
    /\ Typing(pre) /\ pre.position = Len(Quotes[quote]) - 1

\* C17: after a failed store write the loop still handles keys.
C17_InputSurvivesStoreFailure == raised = "StoreError" => ENABLED Next

\* The last call entered Finished: stop was absent when it began or was
\* cleared by the restart it made, and is set now.
EnteredFinished ==
    /\ Handled /\ stop # None
    /\ \/ pre.stop = None
       \/ IsCharacter(key) /\ key # <<" ">>

\* C18: stats.add is called once by a call that enters Finished and by no
\* other call, and then position is len(quote.text).
C18_CommitOncePerFinish ==
    /\ added \in {0, 1}
    /\ added = 1 <=> EnteredFinished
    /\ added = 1 => position = Len(Quotes[quote]) /\ incorrect = 0

\* A backspace arrived after the race was over and committed nothing.
C18_Witness ==
    /\ IsBackspace(key) /\ Finished(pre) /\ stop # None /\ added = 0
    /\ position < pre.position

\* C19: the quote changes only by a navigation key handled while NotStarted
\* or Finished, the session is fresh after every such change, and no key
\* changes the quote while Typing.
C19_QuoteChangesByNavigation ==
    /\ quote # pre.quote
        => /\ key \in {<<" ">>, KEY_LEFT, KEY_RIGHT}
           /\ NotStarted(pre) \/ Finished(pre)
           /\ Fresh
    /\ Typing(pre) => quote = pre.quote

\* A navigation key arrived after a race with errors was over.
C19_Witness ==
    /\ quote # pre.quote /\ Finished(pre) /\ pre.total_incorrect > 0
    /\ key = KEY_LEFT

\* The index just after the last space or newline of t[:p].
WordStart(t, p) ==
    LET breaks == {i \in 1..p : t[i] \in {" ", "\n"}}
    IN  IF breaks = {} THEN 0
        ELSE CHOOSE i \in breaks : \A j \in breaks : j <= i

\* C20: the edit buffer is as long as the typed part of the current word
\* plus the pending errors, and with no error pending it is that part.
C20_EditMatchesCounters ==
    LET t == Quotes[quote]
        ws == WordStart(t, position)
    IN  /\ Len(edit) = (position - ws) + incorrect
        /\ incorrect = 0 => edit = SubSeq(t, ws + 1, position)

====
